---- MODULE Spec2Model ----
(***************************************************************************)
(* The NasaMap component (EONET event map): its filter state, the feed     *)
(* fetch issued by the events effect with its AbortController, the         *)
(* normalisation of the response into GeoJSON features and what the        *)
(* component displays (map source, event count, loading pill, error).      *)
(*                                                                         *)
(* Text that the code inspects character by character (category titles)    *)
(* is a sequence of one-character strings; text that is only built and     *)
(* compared (urls, messages, formatted dates) is a string.                 *)
(***************************************************************************)
EXTENDS Integers, Sequences, FiniteSets, TLC

\* ------------------------------------------------------------------ bounds

\* Feed fetches issued in one run of the component.
MaxFetches == 3
\* Events in one feed response.
MaxBatch == 2

\* ------------------------------------------------------------- constants

EONET_BASE == "https://eonet.gsfc.nasa.gov/api/v3"

CATEGORY_COLORS ==
    << [key |-> <<"w","i","l","d","f","i","r","e","s">>,             color |-> "#ff7b7b"],
       [key |-> <<"s","e","v","e","r","e","S","t","o","r","m","s">>, color |-> "#ffd166"],
       [key |-> <<"v","o","l","c","a","n","o","e","s">>,             color |-> "#f94144"],
       [key |-> <<"s","e","a","L","a","k","e","I","c","e">>,         color |-> "#90e0ef"],
       [key |-> <<"s","n","o","w">>,                                 color |-> "#a8dadc"],
       [key |-> <<"d","u","s","t","H","a","z","e">>,                 color |-> "#e9c46a"],
       [key |-> <<"e","a","r","t","h","q","u","a","k","e","s">>,     color |-> "#f3722c"],
       [key |-> <<"f","l","o","o","d","s">>,                         color |-> "#43aa8b"],
       [key |-> <<"m","a","n","m","a","d","e">>,                     color |-> "#bdb2ff"],
       [key |-> <<"w","a","t","e","r","C","o","l","o","r">>,         color |-> "#48cae4"],
       [key |-> <<"l","a","n","d","s","l","i","d","e","s">>,         color |-> "#8ecae6"] >>

DEFAULT_COLOR == "#7aa2ff"

PaletteKeys == { CATEGORY_COLORS[i].key : i \in DOMAIN CATEGORY_COLORS }

\* CATEGORY_COLORS[categoryKey] || '#7aa2ff'
ColorOf(categoryKey) ==
    IF categoryKey \in PaletteKeys
    THEN (CHOOSE e \in { CATEGORY_COLORS[i] : i \in DOMAIN CATEGORY_COLORS } :
              e.key = categoryKey).color
    ELSE DEFAULT_COLOR

\* ------------------------------------------------------ normalizeCategoryKey

UpperCase == <<"A","B","C","D","E","F","G","H","I","J","K","L","M",
               "N","O","P","Q","R","S","T","U","V","W","X","Y","Z">>
LowerCase == <<"a","b","c","d","e","f","g","h","i","j","k","l","m",
               "n","o","p","q","r","s","t","u","v","w","x","y","z">>

\* String.prototype.toLowerCase, one character.
toLowerCaseChar(c) ==
    IF \E i \in DOMAIN UpperCase : UpperCase[i] = c
    THEN LowerCase[CHOOSE i \in DOMAIN UpperCase : UpperCase[i] = c]
    ELSE c

toLowerCase(s) == [i \in DOMAIN s |-> toLowerCaseChar(s[i])]

\* The characters \s matches among those the model writes.
WhiteSpace == {" ", "\t"}

\* s.replace(/[set]/g, '') and, for a run of them, s.replace(/\s+/g, '').
RECURSIVE RemoveAll(_, _)
RemoveAll(s, set) ==
    IF s = <<>> THEN <<>>
    ELSE IF Head(s) \in set THEN RemoveAll(Tail(s), set)
         ELSE <<Head(s)>> \o RemoveAll(Tail(s), set)

normalizeCategoryKey(title) ==
    RemoveAll(RemoveAll(RemoveAll(toLowerCase(title), WhiteSpace), {"(", ")"}), {"/"})

\* ------------------------------------------------------------ date-fns format

Pad2(n) == IF n < 10 THEN "0" \o ToString(n) ELSE ToString(n)

Pad4(n) ==
    IF n < 10 THEN "000" \o ToString(n)
    ELSE IF n < 100 THEN "00" \o ToString(n)
    ELSE IF n < 1000 THEN "0" \o ToString(n)
    ELSE ToString(n)

\* new Date(text): the fields an ISO timestamp spells make a Date, anything
\* else makes the Invalid Date.
IsValidDate(d) ==
    /\ d.m \in 1..12
    /\ d.d \in 1..31
    /\ d.hh \in 0..23
    /\ d.mi \in 0..59

\* format(date, 'yyyy-MM-dd')
FormatDay(d) == Pad4(d.y) \o "-" \o Pad2(d.m) \o "-" \o Pad2(d.d)

\* format(date, 'yyyy-MM-dd HH:mm')
FormatMinute(d) == FormatDay(d) \o " " \o Pad2(d.hh) \o ":" \o Pad2(d.mi)

\* ------------------------------------------------------------ query builder

\* URLSearchParams.set: the first pair of that name takes the value and the
\* later ones go; with no such pair, one is appended.
RECURSIVE DropName(_, _)
DropName(params, name) ==
    IF params = <<>> THEN <<>>
    ELSE IF Head(params)[1] = name THEN DropName(Tail(params), name)
         ELSE <<Head(params)>> \o DropName(Tail(params), name)

RECURSIVE ParamsSet(_, _, _)
ParamsSet(params, name, value) ==
    IF params = <<>> THEN << <<name, value>> >>
    ELSE IF Head(params)[1] = name
         THEN << <<name, value>> >> \o DropName(Tail(params), name)
         ELSE <<Head(params)>> \o ParamsSet(Tail(params), name, value)

\* URLSearchParams.toString (no value the component sets needs escaping).
RECURSIVE ParamsToString(_)
ParamsToString(params) ==
    IF params = <<>> THEN ""
    ELSE Head(params)[1] \o "=" \o Head(params)[2]
         \o (IF Tail(params) = <<>> THEN "" ELSE "&" \o ParamsToString(Tail(params)))

\* The memo without the test of selectedCategory.
QueryParams_AlwaysCategory(s, e, cat) ==
    LET p1 == ParamsSet(<<>>, "status", "open")
        p2 == ParamsSet(p1, "start", FormatDay(s))
        p3 == ParamsSet(p2, "end", FormatDay(e))
        p4 == ParamsSet(p3, "category", cat)
    IN  ParamsSet(p4, "limit", "250")

\* The pairs the queryUrl memo sets, in order. A Date object is truthy; the
\* category is set when the string is not empty.
QueryParams(s, e, cat) ==
    LET p1 == ParamsSet(<<>>, "status", "open")
        p2 == ParamsSet(p1, "start", FormatDay(s))
        p3 == ParamsSet(p2, "end", FormatDay(e))
        p4 == IF cat # "" THEN ParamsSet(p3, "category", cat) ELSE p3
    IN  ParamsSet(p4, "limit", "250")

BuildQueryUrl(s, e, cat) ==
    EONET_BASE \o "/events?" \o ParamsToString(QueryParams(s, e, cat))

\* ------------------------------------------------------------- the normalizer

\* [...ev.geometry].reverse().find(g => g.type === 'Point'): the index of the
\* last Point entry of the sequence, 0 when there is none.
LastPointIndex(geometry) ==
    LET pts == { i \in DOMAIN geometry : geometry[i].type = "Point" }
    IN  IF pts = {} THEN 0 ELSE CHOOSE i \in pts : \A j \in pts : j <= i

\* ev.categories[0]?.title || 'Unknown'
PrimaryCategory(ev) ==
    IF ev.categories = <<>> \/ ev.categories[1].title = <<>>
    THEN <<"U","n","k","n","o","w","n">>
    ELSE ev.categories[1].title

\* The callback of events.flatMap yields no feature for this event.
YieldsNothing(ev) ==
    LET i == LastPointIndex(ev.geometry)
    IN  i = 0 \/ ~ev.geometry[i].coordinates.isArray

\* format() throws a RangeError on the Invalid Date.
NormalizerThrows(ev) ==
    /\ ~YieldsNothing(ev)
    /\ ~IsValidDate(ev.geometry[LastPointIndex(ev.geometry)].date)

\* The features the callback returns for one event it does not throw on.
FeaturesOf(ev) ==
    IF YieldsNothing(ev) THEN <<>>
    ELSE LET lastPoint == ev.geometry[LastPointIndex(ev.geometry)]
             cat == PrimaryCategory(ev)
             categoryKey == normalizeCategoryKey(cat)
         IN  << [ id          |-> ev.id,
                  title       |-> ev.title,
                  coordinates |-> lastPoint.coordinates.value,
                  category    |-> cat,
                  categoryKey |-> categoryKey,
                  color       |-> ColorOf(categoryKey),
                  latestDate  |-> FormatMinute(lastPoint.date) ] >>

\* events.flatMap(...): the features in event order; an exception of the
\* callback ends the whole flatMap.
RECURSIVE FlatMapFeatures(_)
FlatMapFeatures(events) ==
    IF events = <<>> THEN <<>>
    ELSE FeaturesOf(Head(events)) \o FlatMapFeatures(Tail(events))

BatchThrows(events) == \E i \in DOMAIN events : NormalizerThrows(events[i])

\* new LngLatBounds() extended by every feature's coordinates: <<w, s, e, n>>.
BoundsOf(features) ==
    LET lons == { features[i].coordinates[1] : i \in DOMAIN features }
        lats == { features[i].coordinates[2] : i \in DOMAIN features }
        Min(S) == CHOOSE x \in S : \A y \in S : x <= y
        Max(S) == CHOOSE x \in S : \A y \in S : x >= y
    IN  << Min(lons), Min(lats), Max(lons), Max(lats) >>

\* ------------------------------------------------------- the feed's answers

Jan01 == [y |-> 2024, m |-> 1, d |-> 1, hh |-> 0, mi |-> 0]
Jan15 == [y |-> 2024, m |-> 1, d |-> 15, hh |-> 12, mi |-> 30]
\* A timestamp no Date parses.
NotADate == [y |-> 2024, m |-> 13, d |-> 45, hh |-> 0, mi |-> 0]

Point(date, lon, lat) ==
    [type |-> "Point", date |-> date, coordinates |-> [isArray |-> TRUE, value |-> <<lon, lat>>]]
\* A Point entry whose coordinates field is absent.
PointNoCoordinates(date) ==
    [type |-> "Point", date |-> date, coordinates |-> [isArray |-> FALSE, value |-> <<>>]]
Polygon(date) ==
    [type |-> "Polygon", date |-> date, coordinates |-> [isArray |-> TRUE, value |-> <<>>]]

SevereStorms == <<"S","e","v","e","r","e"," ","S","t","o","r","m","s">>
Wildfires == <<"W","i","l","d","f","i","r","e","s">>
Volcanoes == <<"V","o","l","c","a","n","o","e","s">>

\* The events a response is made of: two Points in date order, two Points
\* out of date order, Polygons only, a Point with an unparseable date, a
\* Point without coordinates.
SampleEvents ==
    { [id |-> "EONET_1", title |-> "Storm", categories |-> <<[id |-> 10, title |-> SevereStorms]>>,
       geometry |-> <<Point(Jan01, 10, 20), Point(Jan15, 11, 21)>>],
      [id |-> "EONET_2", title |-> "Fire", categories |-> <<[id |-> 8, title |-> Wildfires]>>,
       geometry |-> <<Point(Jan15, -50, -10), Polygon(Jan15), Point(Jan01, -52, -12)>>],
      [id |-> "EONET_3", title |-> "Volcano", categories |-> <<[id |-> 12, title |-> Volcanoes]>>,
       geometry |-> <<Polygon(Jan01)>>],
      [id |-> "EONET_4", title |-> "Undated", categories |-> <<>>,
       geometry |-> <<Point(NotADate, 10, 20)>>],
      [id |-> "EONET_5", title |-> "Nowhere", categories |-> <<[id |-> 8, title |-> Wildfires]>>,
       geometry |-> <<Point(Jan01, 10, 20), PointNoCoordinates(Jan15)>>] }

RECURSIVE SeqsUpTo(_, _)
SeqsUpTo(S, n) ==
    IF n = 0 THEN { <<>> }
    ELSE LET shorter == SeqsUpTo(S, n - 1)
         IN  shorter \cup { Append(q, x) : q \in shorter, x \in S }

Batches == SeqsUpTo(SampleEvents, MaxBatch)

\* What the feed endpoint may answer to one GET: no answer at all (the network
\* fails), or a status with a body that is JSON text or is not.
Responses ==
    { [network |-> FALSE, status |-> 0, json |-> FALSE, events |-> <<>>] }
    \cup { [network |-> TRUE, status |-> st, json |-> FALSE, events |-> <<>>] : st \in {200, 500} }
    \cup { [network |-> TRUE, status |-> st, json |-> TRUE, events |-> b] :
               st \in {200, 500}, b \in Batches }

\* The three ways a feed fetch fails.
IsFailure(resp) == ~resp.network \/ resp.status \notin 200..299 \/ ~resp.json

\* ------------------------------------------------------------------ fetchJson

NULL == "null"

Fulfilled(value) == [settled |-> "fulfilled", value |-> value, message |-> ""]
Rejected(message) == [settled |-> "rejected", value |-> <<>>, message |-> message]

\* fetchJson with a fetch that is not passed the signal.
fetchJson_IgnoresSignal(resp, aborted) ==
    IF ~resp.network THEN Rejected("Failed to fetch")
    ELSE IF resp.status \notin 200..299 THEN Rejected("HTTP " \o ToString(resp.status))
    ELSE IF ~resp.json THEN Rejected("Unexpected token < in JSON at position 0")
    ELSE Fulfilled(resp.events)

\* fetchJson without the res.ok test.
fetchJson_NoOkCheck(resp, aborted) ==
    IF aborted THEN Rejected("The user aborted a request.")
    ELSE IF ~resp.network THEN Rejected("Failed to fetch")
    ELSE IF ~resp.json THEN Rejected("Unexpected token < in JSON at position 0")
    ELSE Fulfilled(resp.events)

\* fetch(url, {signal}) rejects with an AbortError once the signal is aborted,
\* while the request or the reading of its body is pending; otherwise the
\* network's failure, the status test and res.json() decide.
fetchJson(resp, aborted) ==
    IF aborted THEN Rejected("The user aborted a request.")
    ELSE IF ~resp.network THEN Rejected("Failed to fetch")
    ELSE IF resp.status \notin 200..299 THEN Rejected("HTTP " \o ToString(resp.status))
    ELSE IF ~resp.json THEN Rejected("Unexpected token < in JSON at position 0")
    ELSE Fulfilled(resp.events)

\* .then(({ events }) => ...) up to the point where it touches the map: the
\* features, or the exception of the normalizer.
ThenHandler(result) ==
    IF result.settled = "rejected" THEN result
    ELSE IF BatchThrows(result.value) THEN Rejected("Invalid time value")
    ELSE Fulfilled(FlatMapFeatures(result.value))

\* err.message || 'Falha ao carregar dados'
ErrorText(message) == IF message # "" THEN message ELSE "Falha ao carregar dados"

\* -------------------------------------------------------------------- state

VARIABLES
    mapRef,            \* mapRef.current is the map (TRUE) or null (FALSE)
    categories,        \* the category list of the selector
    catPending,        \* the categories fetch has not settled
    start,             \* the date range's start
    end,               \* the date range's end
    selectedCategory,  \* "" or a category id as text
    loading,
    error,             \* NULL or the message shown
    eventCount,
    source,            \* the features of the map's 'eonet-events' source
    viewport,          \* what the map shows: the initial camera or fitted bounds
    inflight,          \* the feed fetches whose promise has not settled
    cleanup,           \* the controller the effect's cleanup will abort, 0: none
    nextId,            \* the controllers created so far, plus one
    shownBy,           \* history: the fetch whose features the source holds, 0: none
    superseded,        \* history: the fetches aborted while pending
    issuedAt           \* history: what was displayed when the fetch now awaited was
                       \* issued, as a set of one; empty when none is awaited

vars == << mapRef, categories, catPending, start, end, selectedCategory, loading, error,
           eventCount, source, viewport, inflight, cleanup, nextId, shownBy, superseded,
           issuedAt >>

filter == << start, end, selectedCategory >>
display == << loading, error, eventCount, source, viewport >>
history == << shownBy, superseded, issuedAt >>

queryUrl == BuildQueryUrl(start, end, selectedCategory)

\* What the user sees of the events: source, count and camera.
Displayed == [source |-> source, eventCount |-> eventCount, viewport |-> viewport]

\* getDefaultDateRange(45) on the day the component mounts (2024-03-01).
DefaultEnd == [y |-> 2024, m |-> 3, d |-> 1, hh |-> 0, mi |-> 0]
DefaultStart == [y |-> 2024, m |-> 1, d |-> 16, hh |-> 0, mi |-> 0]

\* The days the user picks in the start and in the end date input.
PickedStarts == { [y |-> 2024, m |-> 1, d |-> 1, hh |-> 0, mi |-> 0] }
PickedEnds == { [y |-> 2024, m |-> 1, d |-> 31, hh |-> 0, mi |-> 0] }

\* What the categories endpoint answers.
CategoryList == << [id |-> 8, title |-> Wildfires] >>

InitialViewport == [kind |-> "camera", box |-> << -40, -15 >>]

Init ==
    /\ mapRef = FALSE
    /\ categories = <<>>
    /\ catPending = TRUE
    /\ start = DefaultStart
    /\ end = DefaultEnd
    /\ selectedCategory = ""
    /\ loading = FALSE
    /\ error = NULL
    /\ eventCount = 0
    /\ source = <<>>
    /\ viewport = InitialViewport
    /\ inflight = {}
    /\ cleanup = 0
    /\ nextId = 1
    /\ shownBy = 0
    /\ superseded = {}
    /\ issuedAt = {}

\* ------------------------------------------------------------------ actions

\* The categories fetch settles: the list is stored, or the failure is dropped.
CategoriesSettle ==
    /\ catPending
    /\ catPending' = FALSE
    /\ \/ categories' = CategoryList
       \/ categories' = categories
    /\ UNCHANGED << mapRef, filter, display, inflight, cleanup, nextId, history >>

\* The map's 'load' handler: source and layer are added, the ref is set.
MapLoad ==
    /\ ~mapRef
    /\ mapRef' = TRUE
    /\ UNCHANGED << categories, catPending, filter, display, inflight, cleanup, nextId,
                    history >>

\* An effect whose cleanup does not abort.
Abort_Nothing(fetches, id) == fetches

\* controller.abort(): the signal of fetch `id` is aborted (nothing to do when
\* its promise has settled).
Abort(fetches, id) ==
    { IF f.id = id THEN [f EXCEPT !.aborted = TRUE] ELSE f : f \in fetches }

\* The events effect after a render with filter state <<s, e, cat>>: nothing
\* when the url is the one of the last render; otherwise the last run's
\* cleanup, then the effect's body.
EventsEffect(s, e, cat) ==
    LET url == BuildQueryUrl(s, e, cat)
        cleaned == IF cleanup = 0 THEN inflight ELSE Abort(inflight, cleanup)
        cancelled == { f.id : f \in { g \in inflight : g.id = cleanup } }
    IN  IF url = queryUrl
        THEN UNCHANGED << display, inflight, cleanup, nextId, history >>
        ELSE IF ~mapRef
        THEN /\ inflight' = cleaned
             /\ cleanup' = 0
             /\ superseded' = superseded \cup cancelled
             /\ UNCHANGED << display, nextId, shownBy, issuedAt >>
        ELSE /\ nextId <= MaxFetches
             /\ inflight' = cleaned \cup { [id |-> nextId, url |-> url, aborted |-> FALSE] }
             /\ cleanup' = nextId
             /\ nextId' = nextId + 1
             /\ loading' = TRUE
             /\ error' = NULL
             /\ superseded' = superseded \cup cancelled
             /\ issuedAt' = {Displayed}
             /\ UNCHANGED << eventCount, source, viewport, shownBy >>

\* onChange of the category selector.
SetSelectedCategory(value) ==
    /\ selectedCategory' = value
    /\ EventsEffect(start, end, value)
    /\ UNCHANGED << mapRef, categories, catPending, start, end >>

\* onChange of the start date input.
SetStart(day) ==
    /\ start' = day
    /\ EventsEffect(day, end, selectedCategory)
    /\ UNCHANGED << mapRef, categories, catPending, end, selectedCategory >>

\* onChange of the end date input.
SetEnd(day) ==
    /\ end' = day
    /\ EventsEffect(start, day, selectedCategory)
    /\ UNCHANGED << mapRef, categories, catPending, start, selectedCategory >>

\* The options of the selector: "Todas" and one per category.
CategoryOptions == {""} \cup { ToString(categories[i].id) : i \in DOMAIN categories }

\* What the then handler is left with for a fetch whose signal is, or is not,
\* aborted, over every answer of the endpoint.
Outcomes(aborted) == { ThenHandler(fetchJson(resp, aborted)) : resp \in Responses }

OutcomesLive == Outcomes(FALSE)
OutcomesAborted == Outcomes(TRUE)

\* The promise chain of feed fetch f ends in `result`: the rest of the then
\* handler, or the catch handler, and the finally handler run.
SettleResult(f, result) ==
    /\ f \in inflight
    /\ inflight' = inflight \ {f}
    /\ IF result.settled = "fulfilled"
       THEN /\ source' = result.value
            /\ eventCount' = Len(result.value)
            /\ viewport' = IF Len(result.value) > 0
                           THEN [kind |-> "bounds", box |-> BoundsOf(result.value)]
                           ELSE viewport
            /\ shownBy' = f.id
            /\ error' = error
       ELSE /\ error' = ErrorText(result.message)
            /\ UNCHANGED << source, eventCount, viewport, shownBy >>
    /\ loading' = FALSE
    /\ issuedAt' = IF f.aborted THEN issuedAt ELSE {}
    /\ UNCHANGED << mapRef, categories, catPending, filter, cleanup, nextId, superseded >>

\* The promise of feed fetch f settles on answer resp.
SettleWith(f, resp) == SettleResult(f, ThenHandler(fetchJson(resp, f.aborted)))

Settle ==
    \E f \in inflight :
        \E result \in (IF f.aborted THEN OutcomesAborted ELSE OutcomesLive) :
            SettleResult(f, result)

Next ==
    \/ CategoriesSettle
    \/ MapLoad
    \/ \E value \in CategoryOptions : SetSelectedCategory(value)
    \/ \E day \in PickedStarts : SetStart(day)
    \/ \E day \in PickedEnds : SetEnd(day)
    \/ Settle

Spec == Init /\ [][Next]_vars

\* The browser delivers the map's load event and every response.
FairSpec == Spec /\ WF_vars(MapLoad) /\ WF_vars(Settle) /\ WF_vars(CategoriesSettle)

\* ------------------------------------------------------------------ claims

LiveFetches == { f \in inflight : ~f.aborted }

\* C1: the source and the event count never hold the result of a fetch that
\* was aborted while pending (superseded by a filter change), whichever of
\* the two responses arrives first; the count is the one of the source.
C1_SupersededNeverShown ==
    /\ shownBy \notin superseded
    /\ \A f \in inflight : f.aborted => shownBy # f.id
    /\ eventCount = Len(source)

\* Fetch A is superseded and still pending while the source already shows
\* the features of the later fetch B.
C1_Witness ==
    \E f \in inflight :
        /\ f.aborted
        /\ f.id \in superseded
        /\ shownBy > f.id
        /\ source # <<>>

\* C2: when the promise of an aborted fetch settles, the error shown stays
\* as it was.
C2_CancelledSetsNoError ==
    [][ \A f \in inflight : (f.aborted /\ f \notin inflight') => error' = error ]_vars

\* Orders the dates of the model as their timestamps do.
TimeOf(d) == ((((d.y * 12) + (d.m - 1)) * 31 + (d.d - 1)) * 24 + d.hh) * 60 + d.mi

\* The most recent Point entry of an event whose Point entries are well formed.
MostRecentPoint(ev) ==
    LET pts == { i \in DOMAIN ev.geometry : ev.geometry[i].type = "Point" }
    IN  ev.geometry[CHOOSE i \in pts :
                        \A j \in pts : TimeOf(ev.geometry[j].date) <= TimeOf(ev.geometry[i].date)]

HasPoint(ev) == \E i \in DOMAIN ev.geometry : ev.geometry[i].type = "Point"

WellFormed(ev) ==
    \A i \in DOMAIN ev.geometry :
        ev.geometry[i].type = "Point" =>
            IsValidDate(ev.geometry[i].date) /\ ev.geometry[i].coordinates.isArray

\* C3: when a response of well-formed events is displayed, the source holds
\* exactly one feature per event that has a Point entry, in event order, at
\* the coordinates of that event's most recent Point entry.
C3_MostRecentPoint ==
    [][ \A f \in inflight : \A resp \in Responses :
          ( /\ ~f.aborted
            /\ ~IsFailure(resp)
            /\ \A i \in DOMAIN resp.events : WellFormed(resp.events[i])
            /\ SettleWith(f, resp) )
          => LET pts == SelectSeq(resp.events, HasPoint)
             IN  /\ Len(source') = Len(pts)
                 /\ \A i \in DOMAIN pts :
                       /\ source'[i].id = pts[i].id
                       /\ source'[i].coordinates = MostRecentPoint(pts[i]).coordinates.value
      ]_vars

\* An event whose selected Point entry lacks coordinates or has a date that
\* does not parse.
Malformed(ev) ==
    LET i == LastPointIndex(ev.geometry)
    IN  i # 0 /\ (~ev.geometry[i].coordinates.isArray \/ ~IsValidDate(ev.geometry[i].date))

NotMalformed(ev) == ~Malformed(ev)

\* C4: when a successful response settles, the source holds the features of
\* every event of the batch that is not malformed, and no error is shown.
C4_MalformedEventExcluded ==
    [][ \A f \in inflight : \A resp \in Responses :
          (~f.aborted /\ ~IsFailure(resp) /\ SettleWith(f, resp))
          => /\ source' = FlatMapFeatures(SelectSeq(resp.events, NotMalformed))
             /\ eventCount' = Len(source')
             /\ error' = NULL
      ]_vars

\* The text of the days of the model, written out.
IsoDay(day) ==
    CASE day = [y |-> 2024, m |-> 1, d |-> 1, hh |-> 0, mi |-> 0] -> "2024-01-01"
      [] day = [y |-> 2024, m |-> 1, d |-> 16, hh |-> 0, mi |-> 0] -> "2024-01-16"
      [] day = [y |-> 2024, m |-> 1, d |-> 31, hh |-> 0, mi |-> 0] -> "2024-01-31"
      [] day = [y |-> 2024, m |-> 3, d |-> 1, hh |-> 0, mi |-> 0] -> "2024-03-01"

\* C5: the url is status=open, the two date bounds as yyyy-MM-dd, the
\* category exactly when one is selected, and limit=250, in that order; the
\* url with a category is the url without one plus the category parameter;
\* a fetch that is not aborted was issued for the url of the filter state.
C5_QueryUrl ==
    LET dates == "status=open&start=" \o IsoDay(start) \o "&end=" \o IsoDay(end)
        params == QueryParams(start, end, selectedCategory)
    IN  /\ queryUrl = EONET_BASE \o "/events?" \o dates
                      \o (IF selectedCategory = "" THEN ""
                          ELSE "&category=" \o selectedCategory)
                      \o "&limit=250"
        /\ (\E i \in DOMAIN params : params[i][1] = "category") <=> selectedCategory # ""
        /\ DropName(params, "category") = QueryParams(start, end, "")
        /\ \A f \in LiveFetches : f.url = queryUrl

\* The spec's scenario, fetched, and after it a fetch with a category.
C5_Witness ==
    /\ selectedCategory = "8"
    /\ \E f \in inflight :
          /\ f.aborted
          /\ f.url = "https://eonet.gsfc.nasa.gov/api/v3/events?status=open&start=2024-01-01&end=2024-01-31&limit=250"
    /\ \E f \in inflight :
          /\ ~f.aborted
          /\ f.url = "https://eonet.gsfc.nasa.gov/api/v3/events?status=open&start=2024-01-01&end=2024-01-31&category=8&limit=250"

\* C6: at most one feed fetch is in flight and not aborted, and it is the one
\* of the latest run of the events effect.
C6_OneLiveFetch ==
    /\ Cardinality(LiveFetches) <= 1
    /\ \A f \in LiveFetches : f.id = cleanup

\* Three fetches in flight, two of them aborted by the filter changes that
\* followed them.
C6_Witness ==
    /\ Cardinality(inflight) = 3
    /\ Cardinality(LiveFetches) = 1

\* What the promise chain of a fetch that is not aborted ends in, over the
\* answers that are failures.
FailureOutcomes ==
    { ThenHandler(fetchJson(resp, FALSE)) : resp \in { r \in Responses : IsFailure(r) } }

\* C7: when a fetch that is not aborted fails (no answer, a status outside
\* 2xx, a body that is not JSON), an error is shown, and source, count and
\* viewport are what they were, and what they were when it was issued.
C7_FailureKeepsDisplay ==
    [][ \A f \in inflight :
          (~f.aborted /\ f \notin inflight')
          => \A result \in FailureOutcomes :
                SettleResult(f, result)
                => /\ error' # NULL
                   /\ Displayed' = Displayed
                   /\ issuedAt = {Displayed'}
      ]_vars

\* A fetch has failed on a 500 while features of an earlier one are shown.
C7_Witness ==
    /\ error = "HTTP 500"
    /\ ~loading
    /\ eventCount = 2
    /\ source # <<>>
    /\ viewport.kind = "bounds"
    /\ shownBy # 0
    /\ shownBy < cleanup

\* C8: once the map has loaded, a feed fetch is eventually issued.
C8_EventuallyFetched == mapRef ~> (nextId > 1)

\* C9: while a fetch that is not aborted is in flight, loading is true.
C9_LoadingWhileFetching == LiveFetches # {} => loading

\* C10: for a displayed feature whose category title spells a palette key
\* (up to what normalizeCategoryKey removes), that key is what
\* normalizeCategoryKey returns, and the feature has the palette's color.
C10_PaletteKeysFixed ==
    \A i \in DOMAIN source : \A k \in PaletteKeys :
        normalizeCategoryKey(k) = source[i].categoryKey
        => /\ normalizeCategoryKey(k) = k
           /\ source[i].color = ColorOf(k)

====
